---- MODULE Spec2Model ----
(***************************************************************************)
(* A model of matcher.py: fuzzy matching of a list of titles against the   *)
(* metadata tables of a corpus directory.                                  *)
(*                                                                         *)
(* A Python str is a sequence of one-character strings, so that split,     *)
(* strip, lower, join and the substring test are computed, not assumed.    *)
(***************************************************************************)
EXTENDS Integers, Sequences, FiniteSets, TLC

(***************************************************************************)
(* Bounds of the model.                                                    *)
(***************************************************************************)
\* rows of the titles file
MaxTitles == 2
\* data rows of one metadata table
MaxRows == 2
\* entries of the metadata directory
MaxFiles == 2

(***************************************************************************)
(* Python str and list primitives.                                         *)
(***************************************************************************)
UpperCase == <<"A","B","C","D","E","F","G","H","I","J","K","L","M",
               "N","O","P","Q","R","S","T","U","V","W","X","Y","Z">>
LowerCase == <<"a","b","c","d","e","f","g","h","i","j","k","l","m",
               "n","o","p","q","r","s","t","u","v","w","x","y","z">>
Digits == <<"0","1","2","3","4","5","6","7","8","9">>
Whitespace == {" "}

\* str.lower() on one character
UpperSet == {UpperCase[i] : i \in DOMAIN UpperCase}
UpperToLower ==
  [c \in UpperSet |-> LowerCase[CHOOSE i \in DOMAIN UpperCase : UpperCase[i] = c]]
LowerChar(c) == IF c \in UpperSet THEN UpperToLower[c] ELSE c

\* str.lower()
Lower(s) == [i \in DOMAIN s |-> LowerChar(s[i])]

\* str.strip(chars): drop the leading and trailing characters in chars
RECURSIVE LStrip(_, _)
LStrip(s, chars) ==
  IF s # <<>> /\ Head(s) \in chars THEN LStrip(Tail(s), chars) ELSE s

RECURSIVE RStrip(_, _)
RStrip(s, chars) ==
  IF s # <<>> /\ s[Len(s)] \in chars
  THEN RStrip(SubSeq(s, 1, Len(s) - 1), chars) ELSE s

Strip(s, chars) == RStrip(LStrip(s, chars), chars)

\* str.split(sep): every separator cuts, empty pieces are kept
RECURSIVE SplitOn(_, _)
SplitOn(s, sep) ==
  IF \E i \in DOMAIN s : s[i] = sep
  THEN LET i == CHOOSE j \in DOMAIN s :
                  s[j] = sep /\ \A k \in 1..(j - 1) : s[k] # sep
       IN  <<SubSeq(s, 1, i - 1)>> \o SplitOn(SubSeq(s, i + 1, Len(s)), sep)
  ELSE <<s>>

\* str.split(): cut at runs of whitespace, no empty pieces
RECURSIVE Split(_)
Split(s) ==
  LET t == LStrip(s, Whitespace) IN
  IF t = <<>> THEN <<>>
  ELSE IF \E i \in DOMAIN t : t[i] \in Whitespace
  THEN LET i == CHOOSE j \in DOMAIN t :
                  t[j] \in Whitespace /\ \A k \in 1..(j - 1) : t[k] \notin Whitespace
       IN  <<SubSeq(t, 1, i - 1)>> \o Split(SubSeq(t, i + 1, Len(t)))
  ELSE <<t>>

\* sep.join(words)
RECURSIVE Join(_, _)
Join(words, sep) ==
  IF words = <<>> THEN <<>>
  ELSE IF Len(words) = 1 THEN words[1]
  ELSE words[1] \o <<sep>> \o Join(Tail(words), sep)

\* str(n) for n >= 0
RECURSIVE Str(_)
Str(n) == IF n < 10 THEN <<Digits[n + 1]>> ELSE Str(n \div 10) \o <<Digits[(n % 10) + 1]>>

\* str.replace(old, new) for one-character old and new
Replace(s, old, new) == [i \in DOMAIN s |-> IF s[i] = old THEN new ELSE s[i]]

\* str.endswith(suffix)
EndsWith(s, suffix) ==
  /\ Len(suffix) <= Len(s)
  /\ SubSeq(s, Len(s) - Len(suffix) + 1, Len(s)) = suffix

\* the substring test `w in s`
Contains(s, w) ==
  \E i \in 1..(Len(s) - Len(w) + 1) : SubSeq(s, i, i + Len(w) - 1) = w

\* the membership test `x in list`
In(x, list) == \E i \in DOMAIN list : list[i] = x

\* max with the comparison turned: the last of the longest elements
MaxByLenLast(list) ==
  list[CHOOSE i \in DOMAIN list :
         /\ \A j \in DOMAIN list : Len(list[j]) <= Len(list[i])
         /\ \A j \in (i + 1)..Len(list) : Len(list[j]) < Len(list[i])]

\* max(list, key=len): the first of the longest elements (list is not empty)
MaxByLen(list) ==
  list[CHOOSE i \in DOMAIN list :
         /\ \A j \in DOMAIN list : Len(list[j]) <= Len(list[i])
         /\ \A j \in 1..(i - 1) : Len(list[j]) < Len(list[i])]

\* a remove that leaves the list as it is
RemoveNothing(list, x) == list

\* list.remove(x): drop the first element equal to x (x is in the list)
Remove(list, x) ==
  LET i == CHOOSE j \in DOMAIN list : list[j] = x /\ \A k \in 1..(j - 1) : list[k] # x
  IN  SubSeq(list, 1, i - 1) \o SubSeq(list, i + 1, Len(list))

(***************************************************************************)
(* Module constants of matcher.py.                                         *)
(***************************************************************************)
kChadwyckTitle == "title"
kGaleTitle == "display_title"
kChicagoTitle == "TITLE"
kTitleFields == <<kChicagoTitle, kChadwyckTitle, kGaleTitle>>

\* Corpus.kStopWords
kStopWords == << <<"t","h","e">>, <<"o","f">>, <<"a">>, <<"a","n">>,
                 <<"i","n">>, <<"o","n">>, <<"a","n","d">> >>

\* kMatchThreshold = 0.5, as the fraction kMatchThresholdNum / kMatchThresholdDen
kMatchThresholdNum == 1
kMatchThresholdDen == 2

\* the characters get_title strips from a word: ,.:;'"
kTitlePunctuation == {",", ".", ":", ";", "'", "\""}
\* the characters filter_matches strips from a word: ,.:;?
kFilterPunctuation == {",", ".", ":", ";", "?"}

(***************************************************************************)
(* The inputs of a run: what the files and the terminal may hold.          *)
(***************************************************************************)
\* the title column of a row of the titles file
QueryPool ==
  { <<"M","o","b","y","-","D","i","c","k">>,
    <<"m","o","b","y"," ","d","i","c","k">>,
    <<"m","o","b","y">>,
    <<"i","t"," ","m","o","b","y"," ","m","o","b","y">>,
    <<"t","h","e">>,
    <<"0">> }

\* the title field of a data row of a metadata table
RecordTitlePool ==
  { <<"M","o","b","y"," ","D","i","c","k">>,
    <<"T","h","e"," ","M","o","b","y",".">>,
    <<>> }

\* the header row of a metadata table
HeaderPool ==
  { <<"display_title", "TITLE">>, <<"id", "Title">> }

\* the value of every column of a data row but the title column
Filler == <<"x">>

\* the names of the entries of the metadata directory
FilePool ==
  { <<"a",".","c","s","v">>, <<"b",".","t","s","v">>, <<"c",".","t","x","t">> }

\* what the user may type at the prompt
ConfirmInputs == { <<"Y">>, <<" ","n","o"," ">>, <<>>, <<"o","k">> }

\* the rows a previous run left in kBadMatchFile
StaleLog == << << <<"o","l","d">>, <<"O","l","d","e","r">>, <<0, 1>> >> >>

\* a local variable that no assignment has reached yet
Unbound == <<"<unbound>">>
\* the return value None / no value
None == "None"

VARIABLES
  pc,             \* the statement of main() control has reached
  exc,            \* the exception that ended the run, or None
  log_exists,     \* kBadMatchFile.exists()
  log,            \* the rows of kBadMatchFile
  todo,           \* the directory entries iterdir() has not yielded yet
  titles,         \* main: titles
  file,           \* main: file.name
  outfiles,       \* the names of the match files written
  out_rows,       \* the data rows of the match file written last
  field_names,    \* Corpus.field_names
  title_field,    \* read_metatable: title_field
  records,        \* Corpus.records, in insertion order
  id_count,       \* Corpus.id_count
  count,          \* read_metatable: count
  collisions,     \* the 'Title collision detected' lines printed
  matches,        \* match_titles: matches, in insertion order
  ti,             \* match_titles: the position of title in titles
  search_title,   \* match_titles: search_title / get_match: title
  cur_word,       \* match_titles, get_match: cur_word
  candidates,     \* match_titles: candidates / get_match: new_candidates
  calls,          \* the calls of get_match made for the current title
  snapshot,       \* filter_matches: list(matches)
  fi,             \* filter_matches: the position of match in list(matches)
  metadata_title, \* filter_matches: metadata_title
  check           \* confirm: check

vars == <<pc, exc, log_exists, log, todo, titles, file, outfiles, out_rows,
          field_names, title_field, records, id_count, count, collisions,
          matches, ti, search_title, cur_word, candidates, calls, snapshot, fi,
          metadata_title, check>>

runVars == <<log_exists, log, todo, titles, file, outfiles, out_rows, check>>
corpusVars == <<field_names, title_field, records, id_count, count, collisions>>
matchVars == <<matches, ti, search_title, cur_word, candidates, calls>>
filterVars == <<snapshot, fi, metadata_title>>

(***************************************************************************)
(* class Corpus                                                            *)
(***************************************************************************)
\* Corpus.get_title_field: the first header field that is in kTitleFields
get_title_field(row) ==
  IF \E i \in DOMAIN row : In(row[i], kTitleFields)
  THEN row[CHOOSE i \in DOMAIN row :
             /\ In(row[i], kTitleFields)
             /\ \A j \in 1..(i - 1) : ~In(row[j], kTitleFields)]
  ELSE None

\* get_title: [word.lower().strip(...) for word in title.split() if ... not in kStopWords]
t_words(title) ==
  LET words == Split(title)
      norm == [i \in DOMAIN words |-> Strip(Lower(words[i]), kTitlePunctuation)]
  IN  SelectSeq(norm, LAMBDA w : ~In(w, kStopWords))

\* get_title without the id_count suffix
get_title_unsuffixed(title, n) == Join(t_words(title), "_")

\* Corpus.get_title: the key of a title, given self.id_count
get_title(title, n) == Join(t_words(title), "_") \o <<"_">> \o Str(n)

\* a row of csv.DictReader, in header order
Row(header, field, raw_title) ==
  [i \in DOMAIN header |-> IF header[i] = field THEN raw_title ELSE Filler]

\* class Record
Record(id_name, metadata, title) ==
  [id |-> id_name, title |-> title, metadata |-> metadata]

\* `title in self.records`
HasKey(recs, key) == \E i \in DOMAIN recs : recs[i].id = key

\* self.records[key]
Lookup(recs, key) == recs[CHOOSE i \in DOMAIN recs : recs[i].id = key]

\* list(self.records): the keys in insertion order
Keys(recs) == [i \in DOMAIN recs |-> recs[i].id]

(***************************************************************************)
(* match_titles and get_match                                              *)
(***************************************************************************)
\* [word for word in title.split() if word not in corpus.kStopWords]
SignificantWords(title) == SelectSeq(Split(title), LAMBDA w : ~In(w, kStopWords))

\* record.split('_')
Segments(key) == SplitOn(key, "_")

\* [c for c in keys if cur_word in c.split('_')]
Narrow(keys, word) == SelectSeq(keys, LAMBDA k : In(word, Segments(k)))

\* matches[title] = record
Put(m, title, rec) ==
  IF \E i \in DOMAIN m : m[i].title = title
  THEN [i \in DOMAIN m |-> IF m[i].title = title THEN [title |-> title, rec |-> rec]
                                                 ELSE m[i]]
  ELSE Append(m, [title |-> title, rec |-> rec])

\* matches[title]
Get(m, title) == (m[CHOOSE i \in DOMAIN m : m[i].title = title]).rec

\* del matches[title]
Del(m, title) == SelectSeq(m, LAMBDA e : e.title # title)

\* title in matches
Matched(m, title) == \E i \in DOMAIN m : m[i].title = title


\* get_match settling an exhausted title on the first candidate left
get_match_guess(title, cands) ==
  IF Len(title) = 0
  THEN [returns |-> TRUE, value |-> IF cands = <<>> THEN None ELSE cands[1],
        cur_word |-> <<>>, title |-> title, candidates |-> cands]
  ELSE LET word == MaxByLen(title)
           new_candidates == Narrow(cands, word)
       IN  IF Len(new_candidates) = 1
           THEN [returns |-> TRUE, value |-> new_candidates[1], cur_word |-> word,
                 title |-> title, candidates |-> new_candidates]
           ELSE [returns |-> FALSE, value |-> None, cur_word |-> word,
                 title |-> Remove(title, word), candidates |-> new_candidates]

\* one call get_match(title, candidates): what it returns, or the arguments of
\* the call it makes next
get_match(title, cands) ==
  IF Len(title) = 0
  THEN [returns |-> TRUE, value |-> None, cur_word |-> <<>>,
        title |-> title, candidates |-> cands]
  ELSE LET word == MaxByLen(title)
           new_candidates == Narrow(cands, word)
       IN  IF Len(new_candidates) = 1
           THEN [returns |-> TRUE, value |-> new_candidates[1], cur_word |-> word,
                 title |-> title, candidates |-> new_candidates]
           ELSE [returns |-> FALSE, value |-> None, cur_word |-> word,
                 title |-> Remove(title, word), candidates |-> new_candidates]

(***************************************************************************)
(* filter_matches                                                          *)
(***************************************************************************)
\* num_terms_matched of one entry match -> record
num_terms_matched(match, rec_title) ==
  Len(SelectSeq(Split(rec_title),
                LAMBDA word : Contains(match, Lower(Strip(word, kFilterPunctuation)))))

\* match_percent <= kMatchThreshold, match_percent being num / den
BelowThreshold(num, den) == num * kMatchThresholdDen <= kMatchThresholdNum * den

\* metadata_title after the loop over the words of the record's title
TitleAfterWords(before, rec_title) ==
  IF Split(rec_title) = <<>> THEN before ELSE rec_title

\* open(kBadMatchFile, mode='a'): the rows of the file once it is open
open_append(rows) == rows

(***************************************************************************)
(* confirm                                                                 *)
(***************************************************************************)
\* str(input(...)).lower().strip()
Answer(typed) == Strip(Lower(typed), Whitespace)

\* confirm taking an answer of n for a yes
confirm_decline_accepts(answer) ==
  IF answer = <<>> THEN "again"
  ELSE IF answer[1] = "y" THEN "True"
  ELSE IF answer[1] = "n" THEN "True"
  ELSE "again"

\* confirm: True, False, or "again" when it asks once more
confirm(answer) ==
  IF answer = <<>> THEN "again"
  ELSE IF answer[1] = "y" THEN "True"
  ELSE IF answer[1] = "n" THEN "False"
  ELSE "again"

(***************************************************************************)
(* The run: main()                                                         *)
(***************************************************************************)
Init ==
  /\ pc = "start"
  /\ exc = None
  /\ log_exists \in BOOLEAN
  /\ log = IF log_exists THEN StaleLog ELSE <<>>
  /\ todo \in {d \in SUBSET FilePool : Cardinality(d) <= MaxFiles}
  /\ titles = <<>>
  /\ file = <<>>
  /\ outfiles = {}
  /\ out_rows = <<>>
  /\ field_names = <<>>
  /\ title_field = None
  /\ records = <<>>
  /\ id_count = 0
  /\ count = 0
  /\ collisions = 0
  /\ matches = <<>>
  /\ ti = 0
  /\ search_title = <<>>
  /\ cur_word = <<>>
  /\ candidates = <<>>
  /\ calls = 0
  /\ snapshot = <<>>
  /\ fi = 0
  /\ metadata_title = Unbound
  /\ check = <<>>

\* an exception nothing catches ends the run
Raise(e) == pc' = "crashed" /\ exc' = e

\* main: if kBadMatchFile.exists()
CheckBadMatchFile ==
  /\ pc = "start"
  /\ pc' = IF log_exists THEN "confirm" ELSE "get_titles"
  /\ UNCHANGED <<exc, runVars, corpusVars, matchVars, filterVars>>

\* confirm: check = str(input(...)).lower().strip()
ConfirmInput ==
  /\ pc = "confirm"
  /\ \E typed \in ConfirmInputs : check' = Answer(typed)
  /\ pc' = "confirm_check"
  /\ UNCHANGED <<exc, log_exists, log, todo, titles, file, outfiles, out_rows,
                 corpusVars, matchVars, filterVars>>

\* confirm returns or asks again; main: os.remove(kBadMatchFile) or return 0
ConfirmReturn ==
  /\ pc = "confirm_check"
  /\ check' = <<>>
  /\ CASE confirm(check) = "True" ->
            /\ log_exists' = FALSE
            /\ log' = <<>>
            /\ pc' = "get_titles"
       [] confirm(check) = "False" ->
            /\ pc' = "aborted"
            /\ UNCHANGED <<log_exists, log>>
       [] OTHER ->
            /\ pc' = "confirm"
            /\ UNCHANGED <<log_exists, log>>
  /\ UNCHANGED <<exc, todo, titles, file, outfiles, out_rows,
                 corpusVars, matchVars, filterVars>>

\* get_titles: one row of the titles file
GetTitlesRow ==
  /\ pc = "get_titles"
  /\ Len(titles) < MaxTitles
  /\ \E raw \in QueryPool : titles' = Append(titles, Replace(raw, "-", " "))
  /\ UNCHANGED <<pc, exc, log_exists, log, todo, file, outfiles, out_rows, check,
                 corpusVars, matchVars, filterVars>>

\* get_titles: the end of the titles file
GetTitlesEnd ==
  /\ pc = "get_titles"
  /\ pc' = "iterdir"
  /\ UNCHANGED <<exc, runVars, corpusVars, matchVars, filterVars>>

IsTable(name) == EndsWith(name, <<".","c","s","v">>) \/ EndsWith(name, <<".","t","s","v">>)

\* main: an entry that is neither .csv nor .tsv
IterSkip ==
  /\ pc = "iterdir"
  /\ \E f \in todo :
       /\ ~IsTable(f)
       /\ todo' = todo \ {f}
       /\ file' = f
  /\ UNCHANGED <<pc, exc, log_exists, log, titles, outfiles, out_rows, check,
                 corpusVars, matchVars, filterVars>>

\* main: cur_corpus = Corpus(file)
IterTable ==
  /\ pc = "iterdir"
  /\ \E f \in todo :
       /\ IsTable(f)
       /\ todo' = todo \ {f}
       /\ file' = f
  /\ pc' = "read_metatable"
  /\ field_names' = <<>>
  /\ title_field' = None
  /\ records' = <<>>
  /\ id_count' = 0
  /\ count' = 0
  /\ UNCHANGED <<exc, log_exists, log, titles, outfiles, out_rows, check,
                 collisions, matchVars, filterVars>>

\* main: the directory is exhausted
IterEnd ==
  /\ pc = "iterdir"
  /\ todo = {}
  /\ pc' = "done"
  /\ UNCHANGED <<exc, runVars, corpusVars, matchVars, filterVars>>

\* read_metatable: the header row
ReadHeader ==
  /\ pc = "read_metatable"
  /\ \E header \in HeaderPool :
       /\ field_names' = header
       /\ title_field' = get_title_field(header)
       /\ IF title_field' = None
          THEN Raise("KeyError")
          ELSE pc' = "rows" /\ exc' = exc
  /\ UNCHANGED <<runVars, records, id_count, count, collisions, matchVars, filterVars>>

\* read_metatable: one data row
ReadRow ==
  /\ pc = "rows"
  /\ id_count < MaxRows
  /\ \E raw_title \in RecordTitlePool :
       LET row == Row(field_names, title_field, raw_title)
           title == get_title(raw_title, id_count)
       IN  /\ id_count' = id_count + 1
           /\ IF HasKey(records, title)
              THEN /\ collisions' = collisions + 1
                   /\ UNCHANGED <<records, count>>
              ELSE /\ records' = Append(records, Record(title, row, raw_title))
                   /\ count' = count + 1
                   /\ UNCHANGED collisions
  /\ UNCHANGED <<pc, exc, runVars, field_names, title_field, matchVars, filterVars>>

\* read_metatable returns; match_titles: matches = {}
ReadEnd ==
  /\ pc = "rows"
  /\ pc' = "match_titles"
  /\ matches' = <<>>
  /\ ti' = 1
  /\ UNCHANGED <<exc, runVars, corpusVars, search_title, cur_word, candidates,
                 calls, filterVars>>

\* match_titles: the body of the loop for one title, up to the call of get_match
MatchTitle ==
  /\ pc = "match_titles"
  /\ ti <= Len(titles)
  /\ LET title == titles[ti]
         words == SignificantWords(title)
     IN  IF words = <<>>
         THEN /\ Raise("ValueError")
              /\ UNCHANGED matchVars
         ELSE LET word == MaxByLen(words)
                  cands == Narrow(Keys(records), word)
              IN  /\ cur_word' = word
                  /\ candidates' = cands
                  /\ calls' = 0
                  /\ exc' = exc
                  /\ IF Len(cands) = 0
                     THEN /\ pc' = pc
                          /\ ti' = ti + 1
                          /\ search_title' = words
                          /\ matches' = matches
                     ELSE IF Len(cands) = 1
                     THEN /\ pc' = pc
                          /\ ti' = ti + 1
                          /\ search_title' = words
                          /\ matches' = Put(matches, title, Lookup(records, cands[1]))
                     ELSE /\ pc' = "get_match"
                          /\ ti' = ti
                          /\ search_title' = Remove(words, word)
                          /\ matches' = matches
  /\ UNCHANGED <<runVars, corpusVars, filterVars>>

\* one call of get_match, and match_titles taking up its result when it returns
GetMatch ==
  /\ pc = "get_match"
  /\ LET r == get_match(search_title, candidates)
     IN  /\ calls' = calls + 1
         /\ cur_word' = r.cur_word
         /\ search_title' = r.title
         /\ candidates' = r.candidates
         /\ IF r.returns
            THEN /\ pc' = "match_titles"
                 /\ ti' = ti + 1
                 /\ matches' = IF r.value = None THEN matches
                               ELSE Put(matches, titles[ti], Lookup(records, r.value))
            ELSE /\ pc' = pc
                 /\ ti' = ti
                 /\ matches' = matches
  /\ UNCHANGED <<exc, runVars, corpusVars, filterVars>>

\* match_titles: filter_matches(matches) opens kBadMatchFile for appending
FilterOpen ==
  /\ pc = "match_titles"
  /\ ti > Len(titles)
  /\ pc' = "filter_matches"
  /\ log_exists' = TRUE
  /\ log' = open_append(log)
  /\ snapshot' = [i \in DOMAIN matches |-> matches[i].title]
  /\ fi' = 1
  /\ metadata_title' = Unbound
  /\ UNCHANGED <<exc, todo, titles, file, outfiles, out_rows, check,
                 corpusVars, matchVars>>

\* filter_matches: the body of the loop for one entry of list(matches)
FilterMatch ==
  /\ pc = "filter_matches"
  /\ fi <= Len(snapshot)
  /\ LET match == snapshot[fi]
         rec == Get(matches, match)
         title_len == Len(Split(match))
         num == num_terms_matched(match, rec.title)
         shown == TitleAfterWords(metadata_title, rec.title)
     IN  /\ metadata_title' = shown
         /\ IF title_len = 0
            THEN /\ Raise("ZeroDivisionError")
                 /\ UNCHANGED <<log, matches, fi>>
            ELSE IF ~BelowThreshold(num, title_len)
            THEN /\ fi' = fi + 1
                 /\ UNCHANGED <<pc, exc, log, matches>>
            ELSE IF shown = Unbound
            THEN /\ Raise("UnboundLocalError")
                 /\ UNCHANGED <<log, matches, fi>>
            ELSE /\ log' = Append(log, <<match, shown, <<num, title_len>>>>)
                 /\ matches' = Del(matches, match)
                 /\ fi' = fi + 1
                 /\ UNCHANGED <<pc, exc>>
  /\ UNCHANGED <<log_exists, todo, titles, file, outfiles, out_rows, check,
                 corpusVars, ti, search_title, cur_word, candidates, calls, snapshot>>

\* filter_matches and match_titles return
FilterEnd ==
  /\ pc = "filter_matches"
  /\ fi > Len(snapshot)
  /\ pc' = "write"
  /\ UNCHANGED <<exc, runVars, corpusVars, matchVars, filterVars>>

\* file.name[:-4] + '_matches.csv'
OutFileName(name) ==
  SubSeq(name, 1, Len(name) - 4) \o <<"_","m","a","t","c","h","e","s",".","c","s","v">>

\* main: the match file of the table; the next iteration binds cur_corpus and
\* matches anew, and the locals of the calls that returned are gone
WriteMatches ==
  /\ pc = "write"
  /\ outfiles' = outfiles \cup {OutFileName(file)}
  /\ out_rows' = [i \in DOMAIN matches |-> <<matches[i].title>> \o matches[i].rec.metadata]
  /\ pc' = "iterdir"
  /\ field_names' = <<>>
  /\ title_field' = None
  /\ records' = <<>>
  /\ id_count' = 0
  /\ count' = 0
  /\ matches' = <<>>
  /\ ti' = 0
  /\ search_title' = <<>>
  /\ cur_word' = <<>>
  /\ candidates' = <<>>
  /\ calls' = 0
  /\ snapshot' = <<>>
  /\ fi' = 0
  /\ metadata_title' = Unbound
  /\ UNCHANGED <<exc, log_exists, log, todo, titles, file, check, collisions>>

Next ==
  \/ CheckBadMatchFile
  \/ ConfirmInput
  \/ ConfirmReturn
  \/ GetTitlesRow
  \/ GetTitlesEnd
  \/ IterSkip
  \/ IterTable
  \/ IterEnd
  \/ ReadHeader
  \/ ReadRow
  \/ ReadEnd
  \/ MatchTitle
  \/ GetMatch
  \/ FilterOpen
  \/ FilterMatch
  \/ FilterEnd
  \/ WriteMatches

Spec == Init /\ [][Next]_vars
(***************************************************************************)
(* Notions the properties are stated with.                                 *)
(***************************************************************************)
MobyDick == <<"M","o","b","y"," ","D","i","c","k">>
moby_dick_0 == <<"m","o","b","y","_","d","i","c","k","_","0">>

\* the title-word segments of a key: all but the trailing disambiguator
TitleSegments(key) == SubSeq(Segments(key), 1, Len(Segments(key)) - 1)

\* how often w occurs in list
Occurrences(list, w) == Cardinality({i \in DOMAIN list : list[i] = w})

\* the leftmost longest word, by a scan from the left that keeps the word it holds
\* unless it meets a strictly longer one
RECURSIVE LongestFrom(_, _)
LongestFrom(list, best) ==
  IF list = <<>> THEN best
  ELSE LongestFrom(Tail(list), IF Len(Head(list)) > Len(best) THEN Head(list) ELSE best)

LeftmostLongest(list) == LongestFrom(Tail(list), Head(list))

\* a step of the narrowing of titles[ti]: the loop body of match_titles, or one call
\* of get_match
NarrowingStep == pc \in {"match_titles", "get_match"} /\ ti \in 1..Len(titles)

IsPrefix(a, b) == Len(a) <= Len(b) /\ SubSeq(b, 1, Len(a)) = a

(***************************************************************************)
(* C1. Exact single-candidate match: when the index holds only the key     *)
(* moby_dick_0, built from a record titled "Moby Dick", and "Moby Dick" is *)
(* one of the query titles, then before the confidence filter runs the     *)
(* title is mapped to the record stored under moby_dick_0.                 *)
(***************************************************************************)
C1_ExactSingleCandidateMatch ==
  ( /\ pc = "filter_matches"
    /\ fi = 1
    /\ Keys(records) = <<moby_dick_0>>
    /\ records[1].title = MobyDick
    /\ In(MobyDick, titles) )
  => /\ Matched(matches, MobyDick)
     /\ Get(matches, MobyDick).id = moby_dick_0

(***************************************************************************)
(* C2. Ambiguity is never resolved by guessing: a narrowing step changes   *)
(* the matches only at the end of the narrowing of a title, and when the   *)
(* narrowing of a title ends the title is matched if and only if the last  *)
(* narrowing step left exactly one candidate, and then to that candidate;  *)
(* a word list exhausted with zero or several candidates gives no match.   *)
(***************************************************************************)
C2_NoGuessing ==
  [][ NarrowingStep =>
        /\ (ti' = ti /\ pc' # "crashed") => matches' = matches
        /\ ti' = ti + 1 =>
             /\ Matched(matches', titles[ti]) <=> Len(candidates') = 1
             /\ Len(candidates') = 1 =>
                  Get(matches', titles[ti]) = Lookup(records, candidates'[1])
             /\ Len(candidates') # 1 => matches' = matches
    ]_vars

\* two candidates were left when the words of a title ran out, and it has no match
C2_Witness ==
  /\ pc = "match_titles"
  /\ ti > 1
  /\ calls >= 1
  /\ search_title = <<>>
  /\ Len(candidates) >= 2
  /\ ~Matched(matches, titles[ti - 1])

(***************************************************************************)
(* C3. Confidence filter: each entry q -> r of the mapping is removed if   *)
(* and only if overlap(q, r) <= 0.5, overlap being the number of words of  *)
(* r's title that, stripped of punctuation and lowercased, occur in q as a *)
(* substring, over the number of words of q; a removed entry appends the   *)
(* one row (q, r's title, overlap) to the audit log, a kept entry none.    *)
(***************************************************************************)
C3_FilterThresholdAndLog ==
  [][ (pc = "filter_matches" /\ fi \in 1..Len(snapshot)) =>
        LET q == snapshot[fi]
            r == Get(matches, q)
            num == Cardinality({i \in DOMAIN Split(r.title) :
                      Contains(q, Lower(Strip(Split(r.title)[i], kFilterPunctuation)))})
            den == Len(Split(q))
            low == 2 * num <= den
        IN  /\ ~Matched(matches', q) <=> low
            /\ log' = IF low THEN Append(log, <<q, r.title, <<num, den>>>>) ELSE log
    ]_vars

C5_MissingTitleFieldIsTableLocal ==
  (field_names # <<>> /\ title_field = None) => (pc = "iterdir" /\ exc = None)

(***************************************************************************)
(* C6. Empty significant-word list: a title all of whose words are stop    *)
(* words raises no error in match_titles and gets no entry; the loop goes  *)
(* on to the titles after it.                                              *)
(***************************************************************************)
C6_EmptySignificantWords ==
  \A i \in DOMAIN titles :
     SignificantWords(titles[i]) = <<>> =>
        /\ ~(pc = "crashed" /\ ti = i)
        /\ ~Matched(matches, titles[i])

(***************************************************************************)
(* C7. Audit-log start-up protocol: an existing log leads from the start   *)
(* straight to the prompt; an answer of n ends the run with the log, the   *)
(* titles, the directory and the match files untouched; the log is removed *)
(* only at the prompt, on an answer of y, and the prompt is never returned *)
(* to; every other step leaves the log as it is or appends rows to it.     *)
(***************************************************************************)
C7_AuditLogStartUp ==
  [][ /\ (pc = "start" /\ log_exists) =>
           (pc' = "confirm" /\ UNCHANGED <<log_exists, log, titles, todo, outfiles>>)
      /\ pc = "confirm" =>
           (pc' = "confirm_check" /\ UNCHANGED <<log_exists, log, titles, todo, outfiles>>)
      /\ (pc = "confirm_check" /\ check # <<>> /\ check[1] = "n") =>
           (pc' = "aborted" /\ UNCHANGED <<log_exists, log, titles, todo, outfiles>>)
      /\ pc' = "aborted" =>
           /\ log_exists' /\ log' = StaleLog
           /\ titles' = <<>> /\ outfiles' = {} /\ file' = <<>> /\ records' = <<>>
      /\ (pc = "confirm_check" /\ check # <<>> /\ check[1] = "y") =>
           (pc' = "get_titles" /\ ~log_exists' /\ log' = <<>>)
      /\ pc' = "confirm" => pc \in {"start", "confirm_check"}
      /\ (log_exists /\ ~log_exists') =>
           (pc = "confirm_check" /\ check # <<>> /\ check[1] = "y")
      /\ ~(pc = "confirm_check" /\ pc' = "get_titles") =>
           (IsPrefix(log, log') /\ (log_exists => log_exists'))
      /\ pc = "aborted" => UNCHANGED vars
    ]_vars

\* the user declined: the run is over with the stale log as it was, no title read
\* and the directory not looked at
C7_Witness ==
  /\ pc = "aborted"
  /\ log_exists /\ log = StaleLog
  /\ todo # {}
  /\ titles = <<>>
  /\ outfiles = {}

(***************************************************************************)
(* C8. The disambiguation suffix never matches a query word: after every   *)
(* narrowing step, each key kept as a candidate has the selected word      *)
(* among its title-word segments, the trailing disambiguator left aside.   *)
(***************************************************************************)
C8_SuffixNeverMatches ==
  (pc \in {"match_titles", "get_match"} /\ cur_word # <<>>) =>
     \A i \in DOMAIN candidates : In(cur_word, TitleSegments(candidates[i]))

(***************************************************************************)
(* C9. Candidate-set invariant of narrowing: every narrowing step that     *)
(* selects a word selects the leftmost longest word of the remaining       *)
(* significant-word list, and after the step the candidates are exactly    *)
(* the keys of the index, in index order, whose underscore-separated       *)
(* segments contain every word selected so far for the title; a record     *)
(* returned as the match is one of them.                                   *)
(***************************************************************************)
C9_CandidateSet ==
  [][ (NarrowingStep /\ pc' # "crashed") =>
        LET S0 == SignificantWords(titles[ti])
            remaining == IF pc = "match_titles" THEN S0 ELSE search_title
            selects == remaining # <<>>
            selected == {S0[i] : i \in {j \in DOMAIN S0 :
                            Occurrences(S0, S0[j]) > Occurrences(search_title', S0[j])}}
                        \cup (IF selects THEN {cur_word'} ELSE {})
            consistent == SelectSeq(Keys(records),
                            LAMBDA k : \A w \in selected : In(w, Segments(k)))
        IN  /\ selects => cur_word' = LeftmostLongest(remaining)
            /\ candidates' = consistent
            /\ matches' # matches =>
                 /\ In(Get(matches', titles[ti]).id, consistent)
                 /\ \A w \in selected :
                       In(w, Segments(Get(matches', titles[ti]).id))
    ]_vars

\* get_match narrowed several candidates down to the one that was returned
C9_Witness ==
  /\ pc = "match_titles"
  /\ ti > 1
  /\ calls >= 1
  /\ Len(candidates) = 1
  /\ Len(records) >= 2
  /\ Matched(matches, titles[ti - 1])
  /\ Get(matches, titles[ti - 1]).id = candidates[1]

(***************************************************************************)
(* C10. Narrowing terminates: while get_match runs, the calls made so far  *)
(* and the words left add up to the length of the list it was first called *)
(* with (every call that recurses removes exactly one word), and once it   *)
(* has returned it has made at most that length plus one calls.            *)
(***************************************************************************)
C10_NarrowingTerminates ==
  /\ pc = "get_match" =>
       calls + Len(search_title) = Len(SignificantWords(titles[ti])) - 1
  /\ (pc \in {"match_titles", "filter_matches", "write"} /\ calls > 0) =>
       calls <= (Len(SignificantWords(titles[ti - 1])) - 1) + 1

\* the most calls: a list with a repeated word, run down to no candidate at all
C10_Witness ==
  /\ pc = "match_titles"
  /\ calls = 3
  /\ calls = Len(SignificantWords(titles[ti - 1]))
  /\ candidates = <<>>
  /\ search_title = <<>>
====
